---- MODULE Spec2Model ----
(***************************************************************************)
(* CryptoShield (Vault) and CZama (Ledger): the encrypted-balance          *)
(* accounting and collateralized-borrow state machine.                     *)
(*                                                                         *)
(* A ciphertext handle (euint64) is modelled by the number it encrypts; an *)
(* uninitialised handle is the number 0.  The 64-bit word of the encrypted *)
(* domain is scaled to WordBits bits, and every arithmetic step that the   *)
(* contracts do on a word is done modulo 2^WordBits.                       *)
(***************************************************************************)
EXTENDS Integers, FiniteSets, Sequences, TLC

\* Width of the scaled machine word standing for uint64 / euint64.
WordBits == 2

Two64 == 2 ^ WordBits
\* type(uint64).max
Uint64Max == Two64 - 1
Half == 2 ^ (WordBits - 1)

\* Addresses.  Zero is address(0); Vault is the CryptoShield contract.
Zero == "zero"
Deployer == "deployer"
Vault == "vault"
Alice == "alice"
Bob == "bob"

\* Externally owned accounts that call the Ledger directly: the owner and a
\* user.
EOAs == {Deployer, Alice}
\* Accounts holding a collateral record and a Ledger balance record.
Accounts == {Alice, Bob}
\* Arguments of updateMinter.
MinterArgs == {Zero, Deployer, Vault, Alice}

\* msg.value and withdraw amounts are uint256 and may exceed the 64-bit word;
\* encrypted inputs are euint64.
PayAmounts == {0, Half, Uint64Max, Two64}
WithdrawAmounts == {0, Half, Uint64Max, Two64}
EncAmounts == {0, Half, Uint64Max}
\* Amounts an externally owned minter passes to the Ledger directly.
LedgerAmounts == {Half}
\* Alice sends every amount above; the second account, Bob, sends these.
SecondAmounts == {0, Half}
AmountsOf(a, amounts) == IF a = Alice THEN amounts ELSE amounts \cap SecondAmounts

VARIABLES
    plainStake,     \* CryptoShield._stakedPlain
    encStake,       \* CryptoShield._stakedEncrypted (value of the handle)
    encDebt,        \* CryptoShield._debtEncrypted (value of the handle)
    balance,        \* CZama (ERC7984) confidential balances (value)
    owner,          \* CZama.owner
    minter,         \* CZama.minter
    vaultEth,       \* ETH held by the CryptoShield contract
    stakeAcl,       \* who may decrypt the handle stored in _stakedEncrypted
    debtAcl,        \* who may decrypt the handle stored in _debtEncrypted
    last,           \* the last transaction: call, arguments, outcome
    pre,            \* the state that transaction started from
    trip,           \* the amounts s and b of the account's round trip
    netPaid,        \* ETH each account sent to the Vault less what it received
    frames,         \* the withdraw calls whose transfer has not returned yet
    deployer,       \* msg.sender of CZama's constructor, Zero before it ran
    busyAction,     \* ShieldApp: the busyAction state of the page
    running,        \* ShieldApp: calls between setBusyAction(x) and finally
    status          \* ShieldApp: the type of the status state of the page

\* The state of the page.
uiVars == <<busyAction, running, status>>

vars == <<plainStake, encStake, encDebt, balance, owner, minter, vaultEth,
          stakeAcl, debtAcl, last, pre, trip, netPaid, frames, deployer,
          uiVars>>

----------------------------------------------------------------------------
(* Encrypted-arithmetic backend and token standard (collaborators).        *)

\* FHESafeMath.tryIncrease: the sum and ok when the 64-bit sum does not
\* overflow, the old value and not ok when it does.
tryIncrease(oldValue, delta) ==
    LET newValue == (oldValue + delta) % Two64
        success == newValue >= oldValue
    IN [ok |-> success, val |-> IF success THEN newValue ELSE oldValue]

\* FHESafeMath.tryDecrease: the difference and ok when delta <= oldValue,
\* the old value and not ok otherwise.
tryDecrease(oldValue, delta) ==
    LET success == oldValue >= delta
    IN [ok |-> success, val |-> IF success THEN oldValue - delta ELSE oldValue]

\* ERC7984._mint as the Ledger's unguarded encrypted addition.
ledgerAdd(bal, amount) == (bal + amount) % Two64

\* ERC7984._burn as the Ledger's unguarded encrypted subtraction.
ledgerSub(bal, amount) == (bal - amount + Two64) % Two64

----------------------------------------------------------------------------
(* CryptoShield                                                            *)

\* uint64(x): the narrowing cast applied before FHE.asEuint64.
asEuint64(x) == x % Two64

\* stakeRevert with the bound compared by >=: a stake reaching 2^64 - 1
\* exactly is refused.
stakeRevertOffByOne(currentPlain, value) ==
    IF value = 0 THEN "ZeroStakeAmount"
    ELSE IF currentPlain + value >= Uint64Max THEN "StakeTooLarge"
    ELSE "none"

\* stakeRevert without the bound.
stakeRevertNoBound(currentPlain, value) ==
    IF value = 0 THEN "ZeroStakeAmount" ELSE "none"

\* stakeRevert with the bound tested on msg.value instead of the new total.
stakeRevertBoundsValueOnly(currentPlain, value) ==
    IF value = 0 THEN "ZeroStakeAmount"
    ELSE IF value > Uint64Max THEN "StakeTooLarge"
    ELSE "none"

\* stake(): the plaintext gates.
stakeRevert(currentPlain, value) ==
    IF value = 0 THEN "ZeroStakeAmount"
    ELSE IF currentPlain + value > Uint64Max THEN "StakeTooLarge"
    ELSE "none"

\* stake(): the encrypted stake written.
stakeEncrypted(currentEnc, value) ==
    tryIncrease(currentEnc, asEuint64(value)).val

\* withdrawRevert without the zero-amount gate.
withdrawRevertNoZero(currentPlain, amount) ==
    IF amount > currentPlain THEN "InsufficientStake"
    ELSE IF amount > Uint64Max THEN "StakeTooLarge"
    ELSE "none"

\* withdrawRevert that refuses to take out the whole stake.
withdrawRevertStrict(currentPlain, amount) ==
    IF amount = 0 THEN "ZeroWithdrawAmount"
    ELSE IF amount >= currentPlain THEN "InsufficientStake"
    ELSE IF amount > Uint64Max THEN "StakeTooLarge"
    ELSE "none"

\* withdrawRevert with the 64-bit bound tested on the stake held.
withdrawRevertBoundOnStake(currentPlain, amount) ==
    IF amount = 0 THEN "ZeroWithdrawAmount"
    ELSE IF amount > currentPlain THEN "InsufficientStake"
    ELSE IF currentPlain >= Uint64Max THEN "StakeTooLarge"
    ELSE "none"

\* withdraw(): the plaintext gates.
withdrawRevert(currentPlain, amount) ==
    IF amount = 0 THEN "ZeroWithdrawAmount"
    ELSE IF amount > currentPlain THEN "InsufficientStake"
    ELSE IF amount > Uint64Max THEN "StakeTooLarge"
    ELSE "none"

\* withdrawEncrypted that stores the old handle back.
withdrawEncryptedStale(currentEnc, amount) == currentEnc

\* withdraw(): the encrypted stake written.
withdrawEncrypted(currentEnc, amount) ==
    tryDecrease(currentEnc, asEuint64(amount)).val

\* borrowRevert with the input validated before the stake gate.
borrowRevertProofFirst(currentPlain, proofOk) ==
    IF ~proofOk THEN "InvalidProof"
    ELSE IF currentPlain = 0 THEN "NoStake"
    ELSE "none"

\* borrow(): the plaintext gate, then FHE.fromExternal's proof check.
borrowRevert(currentPlain, proofOk) ==
    IF currentPlain = 0 THEN "NoStake"
    ELSE IF ~proofOk THEN "InvalidProof"
    ELSE "none"

\* borrowResult that mints the requested amount without the select.
borrowResultMintsAlways(currentDebt, amount, stakeEnc) ==
    LET inc == tryIncrease(currentDebt, amount)
        canBorrow == inc.ok /\ inc.val <= stakeEnc
    IN [finalDebt |-> IF canBorrow THEN inc.val ELSE currentDebt,
        mintAmount |-> amount]

\* borrowResult with the collateral compared by FHE.lt.
borrowResultStrict(currentDebt, amount, stakeEnc) ==
    LET inc == tryIncrease(currentDebt, amount)
        canBorrow == inc.ok /\ inc.val < stakeEnc
    IN [finalDebt |-> IF canBorrow THEN inc.val ELSE currentDebt,
        mintAmount |-> IF canBorrow THEN amount ELSE 0]

\* borrowResult with canBorrow = withinCollateral, increasedOk dropped.
borrowResultNoOverflowGuard(currentDebt, amount, stakeEnc) ==
    LET inc == tryIncrease(currentDebt, amount)
        canBorrow == inc.val <= stakeEnc
    IN [finalDebt |-> IF canBorrow THEN inc.val ELSE currentDebt,
        mintAmount |-> IF canBorrow THEN amount ELSE 0]

\* borrowResult that lends what the collateral still covers.
borrowResultPartial(currentDebt, amount, stakeEnc) ==
    LET room == IF stakeEnc > currentDebt THEN stakeEnc - currentDebt ELSE 0
        granted == IF amount <= room THEN amount ELSE room
    IN [finalDebt |-> currentDebt + granted, mintAmount |-> granted]

\* borrowResult whose mint is selected by increasedOk instead of canBorrow.
borrowResultMintSelectsOnAdd(currentDebt, amount, stakeEnc) ==
    LET inc == tryIncrease(currentDebt, amount)
        canBorrow == inc.ok /\ inc.val <= stakeEnc
    IN [finalDebt |-> IF canBorrow THEN inc.val ELSE currentDebt,
        mintAmount |-> IF inc.ok THEN amount ELSE 0]

\* borrow(): the encrypted conditional update.
borrowResult(currentDebt, amount, stakeEnc) ==
    LET inc == tryIncrease(currentDebt, amount)
        withinCollateral == inc.val <= stakeEnc
        canBorrow == inc.ok /\ withinCollateral
    IN [finalDebt |-> IF canBorrow THEN inc.val ELSE currentDebt,
        mintAmount |-> IF canBorrow THEN amount ELSE 0]

\* repayRevert that takes the external handle without validating it.
repayRevertUnchecked(proofOk) == "none"

\* repay(): FHE.fromExternal's proof check (repay has no plaintext gate).
repayRevert(proofOk) == IF ~proofOk THEN "InvalidProof" ELSE "none"

\* repayResult that stores the old debt back.
repayResultKeepsDebt(currentDebt, amount) ==
    LET dec == tryDecrease(currentDebt, amount)
    IN [updatedDebt |-> currentDebt,
        burnAmount |-> IF dec.ok THEN amount ELSE 0]

\* repayResult that burns the requested amount without the select.
repayResultBurnsAlways(currentDebt, amount) ==
    LET dec == tryDecrease(currentDebt, amount)
    IN [updatedDebt |-> dec.val, burnAmount |-> amount]

\* repayResult with the operands of the burn's select exchanged.
repayResultSelectSwapped(currentDebt, amount) ==
    LET dec == tryDecrease(currentDebt, amount)
    IN [updatedDebt |-> dec.val,
        burnAmount |-> IF dec.ok THEN 0 ELSE amount]

\* repay(): the encrypted conditional update.
repayResult(currentDebt, amount) ==
    LET dec == tryDecrease(currentDebt, amount)
    IN [updatedDebt |-> dec.val,
        burnAmount |-> IF dec.ok THEN amount ELSE 0]

\* stake(): FHE.allowThis(updated); FHE.allow(updated, msg.sender).
stakeGrants(caller) == {Vault, caller}

\* withdraw(): FHE.allowThis(updated); FHE.allow(updated, msg.sender).
withdrawGrants(caller) == {Vault, caller}

\* borrow(): FHE.allowThis(finalDebt); FHE.allow(finalDebt, msg.sender).
borrowGrants(caller) == {Vault, caller}

\* repayGrants without FHE.allow(updatedDebt, msg.sender).
repayGrantsContractOnly(caller) == {Vault}

\* repay(): FHE.allowThis(updatedDebt); FHE.allow(updatedDebt, msg.sender).
repayGrants(caller) == {Vault, caller}

\* withdrawTransfer that sends the whole plain stake.
withdrawTransferWholeStake(caller, amount) ==
    [to |-> caller, value |-> plainStake[caller]]

\* withdraw(): the base-asset transfer, msg.sender.call{value: amount}.
withdrawTransfer(caller, amount) == [to |-> caller, value |-> amount]

\* withdrawTransferRevert that ignores the result of the call.
withdrawTransferUnchecked(sent) == "none"

\* withdraw(): the check of the transfer's result.
withdrawTransferRevert(sent) ==
    IF ~sent THEN "EthTransferFailed" ELSE "none"

\* The events a transaction leaves in the log.
NoEvent == [kind |-> "none", account |-> Zero, amount |-> 0]

\* emit StakeDeposited(msg.sender, msg.value)
stakeEvent(caller, value) ==
    [kind |-> "StakeDeposited", account |-> caller, amount |-> value]

\* emit StakeWithdrawn(msg.sender, amount)
withdrawEvent(caller, amount) ==
    [kind |-> "StakeWithdrawn", account |-> caller, amount |-> amount]

\* borrowEvent emitted only when something was minted.
borrowEventOnlyWhenMinted(caller, mintAmount) ==
    IF mintAmount = 0 THEN NoEvent
    ELSE [kind |-> "Borrowed", account |-> caller, amount |-> mintAmount]

\* emit Borrowed(msg.sender, mintAmount): the amount is a ciphertext handle.
borrowEvent(caller, mintAmount) ==
    [kind |-> "Borrowed", account |-> caller, amount |-> mintAmount]

\* repayEvent emitted only when something was burned.
repayEventOnlyWhenBurned(caller, burnAmount) ==
    IF burnAmount = 0 THEN NoEvent
    ELSE [kind |-> "Repaid", account |-> caller, amount |-> burnAmount]

\* emit Repaid(msg.sender, burnAmount): the amount is a ciphertext handle.
repayEvent(caller, burnAmount) ==
    [kind |-> "Repaid", account |-> caller, amount |-> burnAmount]

----------------------------------------------------------------------------
(* CZama                                                                   *)

\* constructorRevert without the zero-address gate.
constructorRevertNoZero(initialMinter) == "none"

\* constructor: the zero-address gate on the initial minter.
constructorRevert(initialMinter) ==
    IF initialMinter = Zero THEN "InvalidMinter" ELSE "none"

\* minterRevert that also lets the owner through.
minterRevertOwnerToo(caller, currentMinter) ==
    IF caller # currentMinter /\ caller # owner THEN "UnauthorizedMinter" ELSE "none"

\* minterRevert that compares the caller with the owner.
minterRevertChecksOwner(caller, currentMinter) ==
    IF caller # owner THEN "UnauthorizedMinter" ELSE "none"

\* mint / burnFrom: the minter gate.
minterRevert(caller, currentMinter) ==
    IF caller # currentMinter THEN "UnauthorizedMinter" ELSE "none"

\* updateMinterRevert without the zero-address gate.
updateMinterRevertNoZero(caller, currentOwner, newMinter) ==
    IF caller # currentOwner THEN "UnauthorizedOwner" ELSE "none"

\* updateMinter: the owner gate, then the zero-address gate.
updateMinterRevert(caller, currentOwner, newMinter) ==
    IF caller # currentOwner THEN "UnauthorizedOwner"
    ELSE IF newMinter = Zero THEN "InvalidMinter"
    ELSE "none"

----------------------------------------------------------------------------
(* State machine                                                           *)

Snapshot ==
    [plain |-> plainStake, enc |-> encStake, debt |-> encDebt,
     bal |-> balance, owner |-> owner, minter |-> minter, eth |-> vaultEth,
     stakeAcl |-> stakeAcl, debtAcl |-> debtAcl, paid |-> netPaid]

NoCall ==
    [op |-> "none", caller |-> Zero, to |-> Zero, amount |-> 0,
     proofOk |-> TRUE, sent |-> TRUE, err |-> "none", moved |-> 0,
     event |-> NoEvent]

\* No round trip is followed.
NoTrip == [s |-> 0, b |-> 0]

\* The deploy script up to the two constructors: CZama(deployer), then
\* CryptoShield(czama).  The rotation updateMinter(vault) is a transaction.
Deployed ==
    /\ plainStake = [a \in Accounts |-> 0]
    /\ encStake = [a \in Accounts |-> 0]
    /\ encDebt = [a \in Accounts |-> 0]
    /\ balance = [a \in Accounts |-> 0]
    /\ owner = Deployer
    /\ minter = Deployer
    /\ vaultEth = 0
    /\ stakeAcl = [a \in Accounts |-> {}]
    /\ debtAcl = [a \in Accounts |-> {}]
    /\ last = NoCall
    /\ pre = [plain |-> [a \in Accounts |-> 0], enc |-> [a \in Accounts |-> 0],
              debt |-> [a \in Accounts |-> 0], bal |-> [a \in Accounts |-> 0],
              owner |-> Deployer, minter |-> Deployer, eth |-> 0,
              stakeAcl |-> [a \in Accounts |-> {}],
              debtAcl |-> [a \in Accounts |-> {}],
              paid |-> [a \in Accounts |-> 0]]
    /\ netPaid = [a \in Accounts |-> 0]
    /\ frames = <<>>
    /\ deployer = Deployer

\* useState(null): the page as it is first rendered, nothing started.
null == "null"
Actions == {"stake", "withdraw", "borrow", "repay", "decrypt"}
PageLoaded ==
    /\ busyAction = null
    /\ running = [k \in Actions |-> 0]
    /\ status = null

Init == Deployed /\ PageLoaded /\ trip = NoTrip

\* A transaction that reverts: every effect is rolled back.
Reverted(call) ==
    /\ last' = call
    /\ pre' = Snapshot
    /\ UNCHANGED <<deployer, uiVars, trip, frames, netPaid, plainStake, encStake, encDebt, balance, owner, minter, vaultEth,
                   stakeAcl, debtAcl>>

Stake(a, v) ==
    LET call == [NoCall EXCEPT !.op = "stake", !.caller = a, !.amount = v]
        err == stakeRevert(plainStake[a], v)
    IN IF err # "none"
       THEN Reverted([call EXCEPT !.err = err])
       ELSE /\ plainStake' = [plainStake EXCEPT ![a] = plainStake[a] + v]
            /\ encStake' = [encStake EXCEPT ![a] = stakeEncrypted(encStake[a], v)]
            /\ vaultEth' = vaultEth + v
            /\ netPaid' = [netPaid EXCEPT ![a] = netPaid[a] + v]
            /\ stakeAcl' = [stakeAcl EXCEPT ![a] = stakeGrants(a)]
            /\ last' = [call EXCEPT !.event = stakeEvent(a, v)]
            /\ pre' = Snapshot
            /\ UNCHANGED <<deployer, uiVars, trip, frames, encDebt, balance, owner, minter, debtAcl>>

\* Withdraw that also settles the caller's debt by the amount paid out.
WithdrawSettlesDebt(a, amt, sent) ==
    LET call == [NoCall EXCEPT !.op = "withdraw", !.caller = a, !.amount = amt,
                               !.sent = sent]
        err == withdrawRevert(plainStake[a], amt)
        xfer == withdrawTransfer(a, amt)
        sendErr == withdrawTransferRevert(sent)
    IN IF err # "none"
       THEN Reverted([call EXCEPT !.err = err])
       ELSE IF sendErr # "none"
       THEN Reverted([call EXCEPT !.err = sendErr])
       ELSE /\ plainStake' = [plainStake EXCEPT ![a] = plainStake[a] - amt]
            /\ encStake' = [encStake EXCEPT ![a] = withdrawEncrypted(encStake[a], amt)]
            /\ encDebt' = [encDebt EXCEPT ![a] = tryDecrease(encDebt[a], asEuint64(amt)).val]
            /\ vaultEth' = IF sent THEN vaultEth - xfer.value ELSE vaultEth
            /\ netPaid' = IF sent
                          THEN [netPaid EXCEPT ![xfer.to] = netPaid[xfer.to] - xfer.value]
                          ELSE netPaid
            /\ last' = [call EXCEPT !.to = IF sent THEN xfer.to ELSE Zero,
                                    !.moved = IF sent THEN xfer.value ELSE 0,
                                    !.event = withdrawEvent(a, amt)]
            /\ stakeAcl' = [stakeAcl EXCEPT ![a] = withdrawGrants(a)]
            /\ pre' = Snapshot
            /\ UNCHANGED <<deployer, uiVars, trip, frames, balance, owner, minter, debtAcl>>

Withdraw(a, amt, sent) ==
    LET call == [NoCall EXCEPT !.op = "withdraw", !.caller = a, !.amount = amt,
                               !.sent = sent]
        err == withdrawRevert(plainStake[a], amt)
        xfer == withdrawTransfer(a, amt)
        sendErr == withdrawTransferRevert(sent)
    IN IF err # "none"
       THEN Reverted([call EXCEPT !.err = err])
       ELSE IF sendErr # "none"
       THEN Reverted([call EXCEPT !.err = sendErr])
       ELSE /\ plainStake' = [plainStake EXCEPT ![a] = plainStake[a] - amt]
            /\ encStake' = [encStake EXCEPT ![a] = withdrawEncrypted(encStake[a], amt)]
            /\ vaultEth' = IF sent THEN vaultEth - xfer.value ELSE vaultEth
            /\ netPaid' = IF sent
                          THEN [netPaid EXCEPT ![xfer.to] = netPaid[xfer.to] - xfer.value]
                          ELSE netPaid
            /\ last' = [call EXCEPT !.to = IF sent THEN xfer.to ELSE Zero,
                                    !.moved = IF sent THEN xfer.value ELSE 0,
                                    !.event = withdrawEvent(a, amt)]
            /\ stakeAcl' = [stakeAcl EXCEPT ![a] = withdrawGrants(a)]
            /\ pre' = Snapshot
            /\ UNCHANGED <<deployer, uiVars, trip, frames, encDebt, balance, owner, minter, debtAcl>>

Borrow(a, amt, proofOk) ==
    LET call == [NoCall EXCEPT !.op = "borrow", !.caller = a, !.amount = amt,
                               !.proofOk = proofOk]
        err == borrowRevert(plainStake[a], proofOk)
        res == borrowResult(encDebt[a], amt, encStake[a])
        mintErr == minterRevert(Vault, minter)
    IN IF err # "none"
       THEN Reverted([call EXCEPT !.err = err])
       ELSE IF mintErr # "none"
       THEN Reverted([call EXCEPT !.err = mintErr])
       ELSE /\ encDebt' = [encDebt EXCEPT ![a] = res.finalDebt]
            /\ balance' = [balance EXCEPT ![a] = ledgerAdd(balance[a], res.mintAmount)]
            /\ last' = [call EXCEPT !.moved = res.mintAmount,
                                    !.event = borrowEvent(a, res.mintAmount)]
            /\ debtAcl' = [debtAcl EXCEPT ![a] = borrowGrants(a)]
            /\ pre' = Snapshot
            /\ UNCHANGED <<deployer, uiVars, trip, frames, netPaid, plainStake, encStake, owner, minter, vaultEth, stakeAcl>>

\* Repay gated on a plain stake, as borrow is.
RepayNeedsStake(a, amt, proofOk) ==
    LET call == [NoCall EXCEPT !.op = "repay", !.caller = a, !.amount = amt,
                               !.proofOk = proofOk]
        err == IF plainStake[a] = 0 THEN "NoStake" ELSE repayRevert(proofOk)
        res == repayResult(encDebt[a], amt)
        burnErr == minterRevert(Vault, minter)
    IN IF err # "none"
       THEN Reverted([call EXCEPT !.err = err])
       ELSE IF burnErr # "none"
       THEN Reverted([call EXCEPT !.err = burnErr])
       ELSE /\ encDebt' = [encDebt EXCEPT ![a] = res.updatedDebt]
            /\ balance' = [balance EXCEPT ![a] = ledgerSub(balance[a], res.burnAmount)]
            /\ last' = [call EXCEPT !.moved = res.burnAmount,
                                    !.event = repayEvent(a, res.burnAmount)]
            /\ debtAcl' = [debtAcl EXCEPT ![a] = repayGrants(a)]
            /\ pre' = Snapshot
            /\ UNCHANGED <<deployer, uiVars, trip, frames, netPaid, plainStake, encStake, owner, minter, vaultEth, stakeAcl>>

\* Repay whose debt write survives the Ledger's refusal of the burn.
RepayKeepsDebtOnLedgerRevert(a, amt, proofOk) ==
    LET call == [NoCall EXCEPT !.op = "repay", !.caller = a, !.amount = amt,
                               !.proofOk = proofOk]
        err == repayRevert(proofOk)
        res == repayResult(encDebt[a], amt)
        burnErr == minterRevert(Vault, minter)
    IN IF err # "none"
       THEN Reverted([call EXCEPT !.err = err])
       ELSE /\ encDebt' = [encDebt EXCEPT ![a] = res.updatedDebt]
            /\ balance' = IF burnErr # "none" THEN balance
                          ELSE [balance EXCEPT ![a] = ledgerSub(balance[a], res.burnAmount)]
            /\ last' = IF burnErr # "none" THEN [call EXCEPT !.err = burnErr]
                       ELSE [call EXCEPT !.moved = res.burnAmount,
                                         !.event = repayEvent(a, res.burnAmount)]
            /\ debtAcl' = [debtAcl EXCEPT ![a] = repayGrants(a)]
            /\ pre' = Snapshot
            /\ UNCHANGED <<deployer, uiVars, trip, frames, netPaid, plainStake, encStake, owner, minter, vaultEth, stakeAcl>>

Repay(a, amt, proofOk) ==
    LET call == [NoCall EXCEPT !.op = "repay", !.caller = a, !.amount = amt,
                               !.proofOk = proofOk]
        err == repayRevert(proofOk)
        res == repayResult(encDebt[a], amt)
        burnErr == minterRevert(Vault, minter)
    IN IF err # "none"
       THEN Reverted([call EXCEPT !.err = err])
       ELSE IF burnErr # "none"
       THEN Reverted([call EXCEPT !.err = burnErr])
       ELSE /\ encDebt' = [encDebt EXCEPT ![a] = res.updatedDebt]
            /\ balance' = [balance EXCEPT ![a] = ledgerSub(balance[a], res.burnAmount)]
            /\ last' = [call EXCEPT !.moved = res.burnAmount,
                                    !.event = repayEvent(a, res.burnAmount)]
            /\ debtAcl' = [debtAcl EXCEPT ![a] = repayGrants(a)]
            /\ pre' = Snapshot
            /\ UNCHANGED <<deployer, uiVars, trip, frames, netPaid, plainStake, encStake, owner, minter, vaultEth, stakeAcl>>

\* Mint without the minter gate.
MintUngated(c, to, amt) ==
    /\ balance' = [balance EXCEPT ![to] = ledgerAdd(balance[to], amt)]
    /\ last' = [NoCall EXCEPT !.op = "mint", !.caller = c, !.to = to,
                              !.amount = amt, !.moved = amt]
    /\ pre' = Snapshot
    /\ UNCHANGED <<deployer, uiVars, trip, frames, netPaid, plainStake, encStake, encDebt, owner, minter, vaultEth,
                   stakeAcl, debtAcl>>

\* CZama.mint called directly by an externally owned account.
Mint(c, to, amt) ==
    LET call == [NoCall EXCEPT !.op = "mint", !.caller = c, !.to = to, !.amount = amt]
        err == minterRevert(c, minter)
    IN IF err # "none"
       THEN Reverted([call EXCEPT !.err = err])
       ELSE /\ balance' = [balance EXCEPT ![to] = ledgerAdd(balance[to], amt)]
            /\ last' = [call EXCEPT !.moved = amt]
            /\ pre' = Snapshot
            /\ UNCHANGED <<deployer, uiVars, trip, frames, netPaid, plainStake, encStake, encDebt, owner, minter, vaultEth,
                           stakeAcl, debtAcl>>

\* CZama.burnFrom called directly by an externally owned account.
BurnFrom(c, from, amt) ==
    LET call == [NoCall EXCEPT !.op = "burnFrom", !.caller = c, !.to = from, !.amount = amt]
        err == minterRevert(c, minter)
    IN IF err # "none"
       THEN Reverted([call EXCEPT !.err = err])
       ELSE /\ balance' = [balance EXCEPT ![from] = ledgerSub(balance[from], amt)]
            /\ last' = [call EXCEPT !.moved = amt]
            /\ pre' = Snapshot
            /\ UNCHANGED <<deployer, uiVars, trip, frames, netPaid, plainStake, encStake, encDebt, owner, minter, vaultEth,
                           stakeAcl, debtAcl>>

\* UpdateMinter that passes its gates and stores nothing.
UpdateMinterKeepsOld(c, newMinter) ==
    LET call == [NoCall EXCEPT !.op = "updateMinter", !.caller = c, !.to = newMinter]
        err == updateMinterRevert(c, owner, newMinter)
    IN IF err # "none"
       THEN Reverted([call EXCEPT !.err = err])
       ELSE /\ last' = call
            /\ pre' = Snapshot
            /\ UNCHANGED <<deployer, uiVars, trip, frames, netPaid, plainStake, encStake, encDebt, balance, owner, minter,
                           vaultEth, stakeAcl, debtAcl>>

UpdateMinter(c, newMinter) ==
    LET call == [NoCall EXCEPT !.op = "updateMinter", !.caller = c, !.to = newMinter]
        err == updateMinterRevert(c, owner, newMinter)
    IN IF err # "none"
       THEN Reverted([call EXCEPT !.err = err])
       ELSE /\ minter' = newMinter
            /\ last' = call
            /\ pre' = Snapshot
            /\ UNCHANGED <<deployer, uiVars, trip, frames, netPaid, plainStake, encStake, encDebt, balance, owner, vaultEth,
                           stakeAcl, debtAcl>>

Next ==
    \/ \E a \in Accounts : \E v \in AmountsOf(a, PayAmounts) : Stake(a, v)
    \/ \E a \in Accounts : \E amt \in AmountsOf(a, WithdrawAmounts), sent \in BOOLEAN :
          Withdraw(a, amt, sent)
    \/ \E a \in Accounts : \E amt \in AmountsOf(a, EncAmounts), ok \in BOOLEAN :
          Borrow(a, amt, ok)
    \/ \E a \in Accounts : \E amt \in AmountsOf(a, EncAmounts), ok \in BOOLEAN :
          Repay(a, amt, ok)
    \/ \E c \in EOAs, to \in Accounts, amt \in LedgerAmounts : Mint(c, to, amt)
    \/ \E c \in EOAs, from \in Accounts, amt \in LedgerAmounts : BurnFrom(c, from, amt)
    \/ \E c \in EOAs, m \in MinterArgs : UpdateMinter(c, m)

Spec == Init /\ [][Next]_vars

----------------------------------------------------------------------------
(* The round trip of the test "borrows and repays cZama with encrypted     *)
(* debt tracking", closed by the withdraw of the stake: Alice, with no     *)
(* stake, debt or balance, stakes s, borrows b <= s, repays b and          *)
(* withdraws s in four consecutive transactions that complete.  Before     *)
(* and after it the other account and the Ledger's owner and minter act.   *)

\* The amounts of a round trip: s > 0 within the 64-bit bound, b <= s.
Trips ==
    {t \in [s : PayAmounts, b : EncAmounts] :
        0 < t.s /\ t.s <= Uint64Max /\ t.b <= t.s}

Fresh(a) ==
    /\ plainStake[a] = 0
    /\ encStake[a] = 0
    /\ encDebt[a] = 0
    /\ balance[a] = 0

\* How many calls of the round trip Alice has completed.
TripStage ==
    IF last.caller # Alice \/ last.err # "none" THEN 0
    ELSE IF last.op = "stake" THEN 1
    ELSE IF last.op = "borrow" THEN 2
    ELSE IF last.op = "repay" THEN 3
    ELSE 0

RoundTripInit == Deployed /\ PageLoaded /\ trip \in Trips

TripStake ==
    /\ TripStage = 0
    /\ Fresh(Alice)
    /\ Stake(Alice, trip.s)
    /\ last'.err = "none"

TripBorrow ==
    /\ TripStage = 1
    /\ Borrow(Alice, trip.b, TRUE)
    /\ last'.err = "none"

TripRepay ==
    /\ TripStage = 2
    /\ Repay(Alice, trip.b, TRUE)
    /\ last'.err = "none"

TripWithdraw ==
    /\ TripStage = 3
    /\ Withdraw(Alice, trip.s, TRUE)
    /\ last'.err = "none"

\* No round trip is under way: the other account and the Ledger's owner
\* and minter may act.
BetweenTrips == TripStage = 0

RoundTripNext ==
    \/ TripStake
    \/ TripBorrow
    \/ TripRepay
    \/ TripWithdraw
    \/ BetweenTrips /\ \E v \in AmountsOf(Bob, PayAmounts) : Stake(Bob, v)
    \/ BetweenTrips /\ \E amt \in AmountsOf(Bob, WithdrawAmounts), sent \in BOOLEAN :
                           Withdraw(Bob, amt, sent)
    \/ BetweenTrips /\ \E amt \in AmountsOf(Bob, EncAmounts), ok \in BOOLEAN :
                           Borrow(Bob, amt, ok)
    \/ BetweenTrips /\ \E amt \in AmountsOf(Bob, EncAmounts), ok \in BOOLEAN :
                           Repay(Bob, amt, ok)
    \/ BetweenTrips /\ \E c \in EOAs, amt \in LedgerAmounts : Mint(c, Bob, amt)
    \/ BetweenTrips /\ \E c \in EOAs, amt \in LedgerAmounts : BurnFrom(c, Bob, amt)
    \/ BetweenTrips /\ \E c \in EOAs, m \in MinterArgs : UpdateMinter(c, m)

RoundTripSpec == RoundTripInit /\ [][RoundTripNext]_vars

----------------------------------------------------------------------------
(* The deployed system as the deploy script and the test fixture leave it: *)
(* the owner's updateMinter(vault) is the first transaction, and the       *)
(* minter is never rotated away from the Vault afterwards.  The Vault is   *)
(* then the only caller whose mint and burnFrom pass the Ledger's gate.    *)

\* The wiring rotation has been made.
Wired == minter = Vault

\* The last step of the deploy script: czama.updateMinter(vault).
Wire ==
    /\ ~Wired
    /\ UpdateMinter(Deployer, Vault)

WiredNext ==
    \/ Wire
    \/ Wired /\ \E a \in Accounts : \E v \in AmountsOf(a, PayAmounts) : Stake(a, v)
    \/ Wired /\ \E a \in Accounts :
                   \E amt \in AmountsOf(a, WithdrawAmounts), sent \in BOOLEAN :
                      Withdraw(a, amt, sent)
    \/ Wired /\ \E a \in Accounts : \E amt \in AmountsOf(a, EncAmounts), ok \in BOOLEAN :
                   Borrow(a, amt, ok)
    \/ Wired /\ \E a \in Accounts : \E amt \in AmountsOf(a, EncAmounts), ok \in BOOLEAN :
                   Repay(a, amt, ok)
    \/ Wired /\ \E c \in EOAs, to \in Accounts, amt \in LedgerAmounts : Mint(c, to, amt)
    \/ Wired /\ \E c \in EOAs, from \in Accounts, amt \in LedgerAmounts :
                   BurnFrom(c, from, amt)
    \/ Wired /\ \E c \in EOAs, m \in MinterArgs : UpdateMinter(c, m) /\ minter' = Vault

WiredSpec == Init /\ [][WiredNext]_vars

----------------------------------------------------------------------------
(* withdraw with its transfer opened up.  msg.sender.call{value: amount}   *)
(* hands control to the recipient, which may call the Vault again before   *)
(* it returns; what it returns is the `sent` the withdraw tests.  A frame  *)
(* is a withdraw that is inside its transfer.                              *)

\* How deep withdraw calls nest.
MaxDepth == 2

\* The amounts Alice uses here; the second account uses SecondAmounts.
ReentryAmounts == {Half, Uint64Max}

Depth == Len(frames)

\* WithdrawEnter with the call made before the writes of lines 66-74: the
\* recipient runs on a state in which the stake is not yet decremented.
WithdrawEnterCallFirst(a, amt) ==
    LET call == [NoCall EXCEPT !.op = "withdraw", !.caller = a, !.amount = amt]
        err == withdrawRevert(plainStake[a], amt)
        xfer == withdrawTransfer(a, amt)
    IN /\ Depth < MaxDepth
       /\ IF err # "none"
          THEN Reverted([call EXCEPT !.err = err])
          ELSE IF xfer.value > vaultEth
          THEN Reverted([call EXCEPT !.sent = FALSE,
                                     !.err = withdrawTransferRevert(FALSE)])
          ELSE /\ vaultEth' = vaultEth - xfer.value
               /\ netPaid' = [netPaid EXCEPT ![xfer.to] = netPaid[xfer.to] - xfer.value]
               /\ frames' = Append(frames, [caller |-> a, amount |-> amt,
                                            saved |-> Snapshot])
               /\ last' = [call EXCEPT !.to = xfer.to, !.moved = xfer.value]
               /\ pre' = Snapshot
               /\ UNCHANGED <<deployer, uiVars, trip, plainStake, encStake, stakeAcl, encDebt, balance,
                              owner, minter, debtAcl>>

\* withdraw up to and including the start of the transfer (lines 54-76):
\* the gates, the writes, the event, then the value leaves the Vault and
\* the recipient runs.  A call for more than the Vault holds fails at once.
WithdrawEnter(a, amt) ==
    LET call == [NoCall EXCEPT !.op = "withdraw", !.caller = a, !.amount = amt]
        err == withdrawRevert(plainStake[a], amt)
        xfer == withdrawTransfer(a, amt)
    IN /\ Depth < MaxDepth
       /\ IF err # "none"
          THEN Reverted([call EXCEPT !.err = err])
          ELSE IF xfer.value > vaultEth
          THEN Reverted([call EXCEPT !.sent = FALSE,
                                     !.err = withdrawTransferRevert(FALSE)])
          ELSE /\ plainStake' = [plainStake EXCEPT ![a] = plainStake[a] - amt]
               /\ encStake' = [encStake EXCEPT ![a] = withdrawEncrypted(encStake[a], amt)]
               /\ stakeAcl' = [stakeAcl EXCEPT ![a] = withdrawGrants(a)]
               /\ vaultEth' = vaultEth - xfer.value
               /\ netPaid' = [netPaid EXCEPT ![xfer.to] = netPaid[xfer.to] - xfer.value]
               /\ frames' = Append(frames, [caller |-> a, amount |-> amt,
                                            saved |-> Snapshot])
               /\ last' = [call EXCEPT !.to = xfer.to, !.moved = xfer.value,
                                       !.event = withdrawEvent(a, amt)]
               /\ pre' = Snapshot
               /\ UNCHANGED <<deployer, uiVars, trip, encDebt, balance, owner, minter, debtAcl>>

\* The transfer of the innermost withdraw returns (lines 76-79): with
\* sent the withdraw completes; without, it reverts, and with it everything
\* done since it was entered, the recipient's calls included.
WithdrawReturn(sent) ==
    LET f == frames[Depth]
        call == [NoCall EXCEPT !.op = "withdrawReturn", !.caller = f.caller,
                               !.amount = f.amount, !.sent = sent]
        sendErr == withdrawTransferRevert(sent)
    IN /\ Depth > 0
       /\ frames' = SubSeq(frames, 1, Depth - 1)
       /\ pre' = Snapshot
       /\ IF sendErr # "none"
          THEN /\ plainStake' = f.saved.plain
               /\ encStake' = f.saved.enc
               /\ encDebt' = f.saved.debt
               /\ balance' = f.saved.bal
               /\ owner' = f.saved.owner
               /\ minter' = f.saved.minter
               /\ vaultEth' = f.saved.eth
               /\ stakeAcl' = f.saved.stakeAcl
               /\ debtAcl' = f.saved.debtAcl
               /\ netPaid' = f.saved.paid
               /\ last' = [call EXCEPT !.err = sendErr]
               /\ UNCHANGED <<deployer, uiVars, trip>>
          ELSE /\ last' = [call EXCEPT !.to = f.caller, !.moved = f.amount]
               /\ UNCHANGED <<deployer, uiVars, trip, plainStake, encStake, encDebt, balance, owner,
                              minter, vaultEth, stakeAcl, debtAcl, netPaid>>

\* Calls are made from outside (no frame open) or by the recipient of the
\* innermost transfer, which is the one that runs.
Runs(a) == IF Depth = 0 THEN TRUE ELSE a = frames[Depth].caller

ReentryNext ==
    \/ Depth = 0 /\ Wire
    \/ \E a \in Accounts : \E v \in AmountsOf(a, ReentryAmounts) :
          Runs(a) /\ Stake(a, v)
    \/ \E a \in Accounts : \E amt \in AmountsOf(a, ReentryAmounts) :
          Runs(a) /\ WithdrawEnter(a, amt)
    \/ \E sent \in BOOLEAN : WithdrawReturn(sent)
    \/ \E a \in Accounts : \E amt \in LedgerAmounts : Runs(a) /\ Borrow(a, amt, TRUE)
    \/ \E a \in Accounts : \E amt \in LedgerAmounts : Runs(a) /\ Repay(a, amt, TRUE)

ReentrySpec == Init /\ [][ReentryNext]_vars

----------------------------------------------------------------------------
(* Deployment of the Ledger: the constructor runs once, called by any      *)
(* externally owned account with any initial minter; a construction that   *)
(* reverts leaves no contract and may be tried again.  Once the Ledger     *)
(* exists, its three operations and the Vault's four are called.           *)

\* No Ledger yet: no owner, no minter, every record empty.
Undeployed ==
    /\ plainStake = [a \in Accounts |-> 0]
    /\ encStake = [a \in Accounts |-> 0]
    /\ encDebt = [a \in Accounts |-> 0]
    /\ balance = [a \in Accounts |-> 0]
    /\ owner = Zero
    /\ minter = Zero
    /\ vaultEth = 0
    /\ stakeAcl = [a \in Accounts |-> {}]
    /\ debtAcl = [a \in Accounts |-> {}]
    /\ last = NoCall
    /\ pre = [plain |-> [a \in Accounts |-> 0], enc |-> [a \in Accounts |-> 0],
              debt |-> [a \in Accounts |-> 0], bal |-> [a \in Accounts |-> 0],
              owner |-> Zero, minter |-> Zero, eth |-> 0,
              stakeAcl |-> [a \in Accounts |-> {}],
              debtAcl |-> [a \in Accounts |-> {}],
              paid |-> [a \in Accounts |-> 0]]
    /\ netPaid = [a \in Accounts |-> 0]
    /\ frames = <<>>
    /\ deployer = Zero

DeployInit == Undeployed /\ PageLoaded /\ trip = NoTrip

\* The Ledger exists.
Live == deployer # Zero

\* CZama's constructor.
Construct(c, initialMinter) ==
    LET call == [NoCall EXCEPT !.op = "constructor", !.caller = c,
                               !.to = initialMinter]
        err == constructorRevert(initialMinter)
    IN /\ ~Live
       /\ IF err # "none"
          THEN Reverted([call EXCEPT !.err = err])
          ELSE /\ owner' = c
               /\ minter' = initialMinter
               /\ deployer' = c
               /\ last' = call
               /\ pre' = Snapshot
               /\ UNCHANGED <<uiVars, trip, frames, netPaid, plainStake, encStake,
                              encDebt, balance, vaultEth, stakeAcl, debtAcl>>

DeployNext ==
    \/ \E c \in EOAs, m \in MinterArgs : Construct(c, m)
    \/ \E c \in EOAs, to \in Accounts, amt \in LedgerAmounts : Live /\ Mint(c, to, amt)
    \/ \E c \in EOAs, from \in Accounts, amt \in LedgerAmounts :
          Live /\ BurnFrom(c, from, amt)
    \/ \E c \in EOAs, m \in MinterArgs : Live /\ UpdateMinter(c, m)
    \/ \E a \in Accounts : \E v \in LedgerAmounts : Live /\ Stake(a, v)
    \/ \E a \in Accounts : \E amt \in LedgerAmounts : Live /\ Withdraw(a, amt, TRUE)
    \/ \E a \in Accounts : \E amt \in LedgerAmounts : Live /\ Borrow(a, amt, TRUE)
    \/ \E a \in Accounts : \E amt \in LedgerAmounts : Live /\ Repay(a, amt, TRUE)

DeploySpec == DeployInit /\ [][DeployNext]_vars

----------------------------------------------------------------------------
(* The page (ShieldApp): the wallet is connected and the contract          *)
(* addresses are set.  A click runs its handler up to the first await; the *)
(* awaited wallet, chain and relayer calls settle later, in any order.     *)

\* Calls in flight at once.
MaxInFlight == 3

Transactions == Actions \ {"decrypt"}

chainVars == <<plainStake, encStake, encDebt, balance, owner, minter, vaultEth,
               stakeAcl, debtAcl, last, pre, trip, netPaid, frames, deployer>>

\* Calls of runTransaction and decryptBalances that have not reached their
\* finally block.
InFlight ==
    running["stake"] + running["withdraw"] + running["borrow"]
        + running["repay"] + running["decrypt"]

\* disabled of the Stake, Withdraw, Borrow and Repay buttons.
transactionDisabled(busy) == busy # null

\* disabled of the Decrypt Now button.
decryptDisabled(busy) == busy = "decrypt"

\* handleStake / handleWithdraw / handleBorrow / handleRepay: with no signer
\* (or, for borrow and repay, no encryption instance) an error is shown
\* and nothing starts; otherwise runTransaction up to its first await.
HandleTransaction(k, ready) ==
    /\ ~transactionDisabled(busyAction)
    /\ InFlight < MaxInFlight
    /\ IF ~ready
       THEN /\ status' = "error"
            /\ UNCHANGED <<busyAction, running>>
       ELSE /\ busyAction' = k
            /\ status' = "pending"
            /\ running' = [running EXCEPT ![k] = @ + 1]
    /\ UNCHANGED chainVars

\* decryptBalances up to its first await: an error when the signer or the
\* instance is missing, nothing but zeros shown when the account has no
\* handle yet, otherwise the decryption starts.
DecryptBalances(ready, handles) ==
    /\ ~decryptDisabled(busyAction)
    /\ InFlight < MaxInFlight
    /\ IF ~ready
       THEN /\ status' = "error"
            /\ UNCHANGED <<busyAction, running>>
       ELSE IF ~handles
       THEN UNCHANGED uiVars
       ELSE /\ busyAction' = "decrypt"
            /\ status' = "pending"
            /\ running' = [running EXCEPT !["decrypt"] = @ + 1]
    /\ UNCHANGED chainVars

\* runTransaction after callback() returned: waiting for confirmation.
Confirming(k) ==
    /\ running[k] > 0
    /\ status' = "pending"
    /\ UNCHANGED <<busyAction, running>>
    /\ UNCHANGED chainVars

\* The end of runTransaction or decryptBalances: the success or the caught
\* error is shown, then finally resets busyAction.
Finish(k, ok) ==
    /\ running[k] > 0
    /\ status' = IF ok THEN "success" ELSE "error"
    /\ busyAction' = null
    /\ running' = [running EXCEPT ![k] = @ - 1]
    /\ UNCHANGED chainVars

UiNext ==
    \/ \E k \in Transactions, ready \in BOOLEAN : HandleTransaction(k, ready)
    \/ \E ready \in BOOLEAN, handles \in BOOLEAN : DecryptBalances(ready, handles)
    \/ \E k \in Transactions : Confirming(k)
    \/ \E k \in Actions, ok \in BOOLEAN : Finish(k, ok)

UiSpec == Init /\ [][UiNext]_vars

----------------------------------------------------------------------------
(* Properties                                                              *)

\* The caller of the last transaction, when it is an account of the Vault.
Caller == last.caller

Succeeded == last.err = "none"

\* C1: in every reachable state every account's encrypted debt is at most
\* its encrypted stake.
C1_DebtWithinStake ==
    \A a \in Accounts : encDebt[a] <= encStake[a]

\* C2: in every reachable state, for every account, the value held in the
\* encrypted stake equals the plain stake, whatever stake and withdraw calls
\* (successful or failing) were made.
C2_StakeMirrorsAgree ==
    \A a \in Accounts : encStake[a] = plainStake[a]

\* A withdraw that took effect and left stake behind, with both mirrors at
\* the same positive value.
C2_Witness ==
    /\ last.op = "withdraw"
    /\ Succeeded
    /\ plainStake[Caller] > 0
    /\ plainStake[Caller] < pre.plain[Caller]
    /\ encStake[Caller] = plainStake[Caller]

\* The case of C3: a borrow with a valid input, by an account with stake,
\* whose new debt would exceed its stake.
C3_Case ==
    /\ last.op = "borrow"
    /\ last.proofOk
    /\ pre.plain[Caller] > 0
    /\ pre.debt[Caller] + last.amount > pre.enc[Caller]

C3_ZeroEffect ==
    /\ Succeeded
    /\ encDebt[Caller] = pre.debt[Caller]
    /\ last.moved = 0
    /\ balance[Caller] = pre.bal[Caller]

\* C3 as stated: a borrow of b with plainStake > 0 and d + b > s does not
\* revert; the debt stays d, the amount minted is 0 and the Ledger balance
\* is unchanged.
C3_Original ==
    C3_Case => C3_ZeroEffect

\* C3 as amended: the same, for a borrow made while the Vault is the
\* Ledger's minter.
C3_BorrowBeyondCollateral ==
    (C3_Case /\ pre.minter = Vault) => C3_ZeroEffect

\* A borrow beyond the collateral that completed, by an account in debt.
C3_Witness ==
    /\ C3_Case
    /\ pre.minter = Vault
    /\ Succeeded
    /\ last.amount > 0
    /\ pre.debt[Caller] > 0
    /\ encDebt[Caller] = pre.debt[Caller]

C5_WitnessPartial ==
    /\ last.op = "repay"
    /\ Succeeded
    /\ last.amount > 0
    /\ last.amount < pre.debt[Caller]
    /\ encDebt[Caller] > 0

\* The case of C6: a repay with a valid input of more than the debt.
C6_Case ==
    /\ last.op = "repay"
    /\ last.proofOk
    /\ last.amount > pre.debt[Caller]

C6_ZeroEffect ==
    /\ Succeeded
    /\ encDebt[Caller] = pre.debt[Caller]
    /\ last.moved = 0
    /\ balance[Caller] = pre.bal[Caller]

\* C6 as stated: a repay of more than the outstanding debt does not revert;
\* the debt stays d, the burn amount is 0, the Ledger balance is unchanged.
C6_Original ==
    C6_Case => C6_ZeroEffect

\* C6 as amended: the same, for a repay made while the Vault is the
\* Ledger's minter.
C6_RepayBeyondDebt ==
    (C6_Case /\ pre.minter = Vault) => C6_ZeroEffect

\* A repay beyond a positive debt that completed.
C6_Witness ==
    /\ C6_Case
    /\ pre.minter = Vault
    /\ Succeeded
    /\ pre.debt[Caller] > 0
    /\ pre.bal[Caller] > 0
    /\ encDebt[Caller] = pre.debt[Caller]

\* C7: a Ledger mint or burnFrom whose caller is not the current minter
\* fails with UnauthorizedMinter and changes no balance, for every
\* non-minter caller, the owner included.
C7_OnlyMinterMintsAndBurns ==
    (/\ last.op \in {"mint", "burnFrom"}
     /\ last.caller # pre.minter)
    => /\ last.err = "UnauthorizedMinter"
       /\ balance = pre.bal

\* The owner, no longer the minter, is refused.
C7_Witness ==
    /\ last.op \in {"mint", "burnFrom"}
    /\ last.caller = owner
    /\ pre.minter # owner
    /\ last.err = "UnauthorizedMinter"
    /\ balance = pre.bal

\* C8: updateMinter by a non-owner fails with UnauthorizedOwner (also for
\* the zero address) and leaves the minter; by the owner with the zero
\* address it fails with InvalidMinter and leaves the minter; otherwise it
\* sets the minter, and a mint that the replaced minter sends next fails.
C8_UpdateMinter ==
    [][/\ (last'.op = "updateMinter" /\ last'.caller # owner)
          => (last'.err = "UnauthorizedOwner" /\ minter' = minter)
       /\ (last'.op = "updateMinter" /\ last'.caller = owner /\ last'.to = Zero)
          => (last'.err = "InvalidMinter" /\ minter' = minter)
       /\ (last'.op = "updateMinter" /\ last'.caller = owner /\ last'.to # Zero)
          => (last'.err = "none" /\ minter' = last'.to)
       /\ (/\ last.op = "updateMinter"
           /\ last.err = "none"
           /\ pre.minter # minter
           /\ last'.op = "mint"
           /\ last'.caller = pre.minter)
          => (last'.err = "UnauthorizedMinter" /\ balance' = balance)
      ]_vars

\* The owner rotated the minter away from the previous one.
C8_Witness ==
    /\ last.op = "updateMinter"
    /\ Succeeded
    /\ last.caller = owner
    /\ minter = last.to
    /\ minter # pre.minter

\* C9: for plainStake s and a payment v > 0 with s + v <= 2^64 - 1, stake()
\* succeeds and leaves plainStake = s + v and encryptedStake = s + v.
C9_StakeAdds ==
    (/\ last.op = "stake"
     /\ last.amount > 0
     /\ pre.plain[Caller] + last.amount <= Uint64Max)
    => /\ Succeeded
       /\ plainStake[Caller] = pre.plain[Caller] + last.amount
       /\ encStake[Caller] = pre.plain[Caller] + last.amount

\* A stake on top of an existing stake that reaches the bound exactly.
C9_Witness ==
    /\ last.op = "stake"
    /\ Succeeded
    /\ pre.plain[Caller] > 0
    /\ plainStake[Caller] = Uint64Max
    /\ encStake[Caller] = Uint64Max

\* The Vault's own state and its held ETH are what they were before the
\* last transaction.
VaultUntouched ==
    /\ plainStake = pre.plain
    /\ encStake = pre.enc
    /\ encDebt = pre.debt
    /\ vaultEth = pre.eth

\* C10: stake() with payment 0 fails with ZeroStakeAmount, and with
\* plainStake + v > 2^64 - 1 it fails with StakeTooLarge; either way plain
\* stake, encrypted stake, debt and the Vault's ETH are unchanged.
C10_StakeRejects ==
    /\ (last.op = "stake" /\ last.amount = 0)
       => (last.err = "ZeroStakeAmount" /\ VaultUntouched)
    /\ (last.op = "stake" /\ last.amount > 0
        /\ pre.plain[Caller] + last.amount > Uint64Max)
       => (last.err = "StakeTooLarge" /\ VaultUntouched)

\* A stake refused for the bound, by an account that holds stake and debt.
C10_Witness ==
    /\ last.op = "stake"
    /\ last.err = "StakeTooLarge"
    /\ pre.plain[Caller] > 0
    /\ pre.debt[Caller] > 0
    /\ VaultUntouched

\* A stake of nothing, refused.
C10_WitnessZero ==
    /\ last.op = "stake"
    /\ last.err = "ZeroStakeAmount"
    /\ pre.plain[Caller] > 0
    /\ VaultUntouched

\* Every contract variable is what it was before the last transaction.
StateAsBefore == Snapshot = pre

\* The last transaction left no trace: no state change, no transfer, mint
\* or burn, no event.
NoEffect ==
    /\ StateAsBefore
    /\ last.moved = 0
    /\ last.event = NoEvent

\* C11: withdraw(amount) with 0 < amount <= plainStake[A] whose transfer
\* succeeds reduces plainStake[A] and encryptedStake[A] by exactly amount
\* and transfers exactly amount of the base asset to A.
C11_WithdrawSubtracts ==
    (/\ last.op = "withdraw"
     /\ 0 < last.amount
     /\ last.amount <= pre.plain[Caller]
     /\ last.sent)
    => /\ Succeeded
       /\ plainStake[Caller] = pre.plain[Caller] - last.amount
       /\ encStake[Caller] = pre.enc[Caller] - last.amount
       /\ last.to = Caller
       /\ last.moved = last.amount
       /\ vaultEth = pre.eth - last.amount

\* A partial withdraw that was paid out.
C11_Witness ==
    /\ last.op = "withdraw"
    /\ Succeeded
    /\ last.sent
    /\ 0 < last.amount
    /\ last.amount < pre.plain[Caller]
    /\ plainStake[Caller] = pre.plain[Caller] - last.amount
    /\ last.to = Caller
    /\ last.moved = last.amount

\* C12: withdraw(0) fails with ZeroWithdrawAmount (also with no stake) and
\* withdraw(amount) with amount > plainStake fails with InsufficientStake;
\* no stake, debt or ETH balance changes and no transfer is made.
C12_WithdrawRejects ==
    /\ (last.op = "withdraw" /\ last.amount = 0)
       => (last.err = "ZeroWithdrawAmount" /\ NoEffect)
    /\ (last.op = "withdraw" /\ last.amount > pre.plain[Caller])
       => (last.err = "InsufficientStake" /\ NoEffect)

\* A withdraw of more than the stake held, refused.
C12_Witness ==
    /\ last.op = "withdraw"
    /\ last.err = "InsufficientStake"
    /\ pre.plain[Caller] > 0
    /\ last.amount > pre.plain[Caller]
    /\ NoEffect

\* A withdraw of nothing by an account without stake, refused.
C12_WitnessZero ==
    /\ last.op = "withdraw"
    /\ last.err = "ZeroWithdrawAmount"
    /\ pre.plain[Caller] = 0
    /\ NoEffect

\* C13: when the base-asset transfer inside withdraw reports failure the
\* call fails with EthTransferFailed and the state is the state before the
\* call: the stakes are not decremented and no StakeWithdrawn event stays.
C13_FailedTransferRollsBack ==
    (/\ last.op = "withdraw"
     /\ 0 < last.amount
     /\ last.amount <= pre.plain[Caller]
     /\ ~last.sent)
    => /\ last.err = "EthTransferFailed"
       /\ NoEffect

\* A withdraw that passed the gates and whose transfer failed.
C13_Witness ==
    /\ last.op = "withdraw"
    /\ ~last.sent
    /\ last.err = "EthTransferFailed"
    /\ 0 < last.amount
    /\ plainStake[Caller] = pre.plain[Caller]
    /\ plainStake[Caller] >= last.amount

\* C14: borrow by an account with plainStake = 0 fails with NoStake and
\* changes nothing, whether the input proof is valid or not.
C14_BorrowNeedsStake ==
    (last.op = "borrow" /\ pre.plain[Caller] = 0)
    => (last.err = "NoStake" /\ NoEffect)

\* A borrow without stake and with an invalid proof: NoStake is reported.
C14_Witness ==
    /\ last.op = "borrow"
    /\ pre.plain[Caller] = 0
    /\ ~last.proofOk
    /\ last.err = "NoStake"

\* The case of C16: a borrow with a valid input by an account with stake.
C16_Case ==
    /\ last.op = "borrow"
    /\ last.proofOk
    /\ pre.plain[Caller] > 0

\* C16 as stated: in every reachable state a borrow by an account with
\* plainStake > 0 and a valid proof completes, whatever the amount and the
\* debt.
C16_Original ==
    C16_Case => Succeeded

\* C16 as amended: in every reachable state in which the Vault is the
\* Ledger's minter, such a borrow completes.
C16_BorrowCompletes ==
    (C16_Case /\ pre.minter = Vault) => Succeeded

\* A borrow that completed although its sum overflows the 64-bit word.
C16_Witness ==
    /\ C16_Case
    /\ pre.minter = Vault
    /\ Succeeded
    /\ pre.debt[Caller] > 0
    /\ pre.debt[Caller] + last.amount > Uint64Max

\* What the public sees of a borrow or repay with a valid proof, computed
\* from the public state before the call: the status of the call.
PublicStatus ==
    IF last.op = "borrow" /\ pre.plain[Caller] = 0 THEN "NoStake"
    ELSE IF pre.minter # Vault THEN "UnauthorizedMinter"
    ELSE "none"

\* The kind and public field of the event, and the grants on the debt.
PublicEventKind ==
    IF PublicStatus # "none" THEN "none"
    ELSE IF last.op = "borrow" THEN "Borrowed" ELSE "Repaid"

PublicEventAccount == IF PublicStatus # "none" THEN Zero ELSE Caller

PublicDebtAcl ==
    IF PublicStatus # "none" THEN pre.debtAcl
    ELSE [pre.debtAcl EXCEPT ![Caller] = {Vault, Caller}]

\* C17: the public outcome of a borrow or repay with a valid proof does not
\* depend on the encrypted amount: status, plain stake, event kind and
\* public event field are determined by the public state before the call.
C17_AmountNotObservable ==
    (last.op \in {"borrow", "repay"} /\ last.proofOk)
    => /\ last.err = PublicStatus
       /\ plainStake = pre.plain
       /\ vaultEth = pre.eth
       /\ owner = pre.owner
       /\ minter = pre.minter
       /\ stakeAcl = pre.stakeAcl
       /\ debtAcl = PublicDebtAcl
       /\ last.event.kind = PublicEventKind
       /\ last.event.account = PublicEventAccount

\* A borrow that took no effect and looks like one that did.
C17_Witness ==
    /\ last.op = "borrow"
    /\ last.proofOk
    /\ Succeeded
    /\ last.amount > 0
    /\ last.moved = 0
    /\ encDebt = pre.debt
    /\ last.event.kind = "Borrowed"
    /\ last.event.account = Caller

\* C18: after every successful stake, withdraw, borrow or repay the handle
\* stored in the caller's field carries access for the Vault and the
\* caller, and no handle these operations stored lacks either grant.
C18_StoredHandlesGranted ==
    /\ (Succeeded /\ last.op \in {"stake", "withdraw"})
       => {Vault, Caller} \subseteq stakeAcl[Caller]
    /\ (Succeeded /\ last.op \in {"borrow", "repay"})
       => {Vault, Caller} \subseteq debtAcl[Caller]
    /\ \A a \in Accounts :
          /\ stakeAcl[a] # {} => {Vault, a} \subseteq stakeAcl[a]
          /\ debtAcl[a] # {} => {Vault, a} \subseteq debtAcl[a]

\* A repay that stored the first debt handle of an account.
C18_Witness ==
    /\ last.op = "repay"
    /\ Succeeded
    /\ pre.debtAcl[Caller] = {}
    /\ debtAcl[Caller] = {Vault, Caller}

\* C19: a borrow or repay whose input proof is rejected fails as a whole:
\* debt, stake and Ledger balance are unchanged and no mint, burn or event
\* occurs.
C19_RejectedProofFails ==
    (last.op \in {"borrow", "repay"} /\ ~last.proofOk)
    => /\ last.err \in {"InvalidProof", "NoStake"}
       /\ (last.err = "NoStake" => last.op = "borrow" /\ pre.plain[Caller] = 0)
       /\ NoEffect

\* A repay with a rejected proof by an account in debt, Vault being minter.
C19_Witness ==
    /\ last.op = "repay"
    /\ ~last.proofOk
    /\ last.err = "InvalidProof"
    /\ pre.minter = Vault
    /\ pre.debt[Caller] > 0
    /\ last.amount > 0

\* C20: a stake, withdraw, borrow or repay by account A leaves the plain
\* stake, encrypted stake, debt and Ledger balance of every other account
\* unchanged, and a Ledger balance changes only through a mint or
\* burnFrom by the current minter.
C20_AccountIsolation ==
    /\ last.op \in {"stake", "withdraw", "borrow", "repay"}
       => \A b \in Accounts \ {Caller} :
             /\ plainStake[b] = pre.plain[b]
             /\ encStake[b] = pre.enc[b]
             /\ encDebt[b] = pre.debt[b]
             /\ balance[b] = pre.bal[b]
    /\ \A a \in Accounts :
          balance[a] # pre.bal[a]
          => \/ /\ last.op \in {"mint", "burnFrom"}
                /\ last.caller = pre.minter
                /\ last.to = a
             \/ /\ last.op \in {"borrow", "repay"}
                /\ pre.minter = Vault
                /\ Caller = a

\* Alice's borrow changed her records while Bob holds stake, debt and
\* balance of his own.
C20_Witness ==
    /\ last.op = "borrow"
    /\ Succeeded
    /\ Caller = Alice
    /\ last.moved > 0
    /\ balance[Alice] # pre.bal[Alice]
    /\ plainStake[Bob] > 0
    /\ encDebt[Bob] > 0
    /\ balance[Bob] = pre.bal[Bob]

\* Alice's round trip has just been completed.
TripDone ==
    /\ last.op = "withdraw"
    /\ last.caller = Alice
    /\ Succeeded

\* C15: from a fresh account, stake s, borrow b <= s, repay b, withdraw s,
\* for s > 0 and 0 <= b <= s within the 64-bit bound, ends with plain
\* stake, encrypted stake, debt and Ledger balance all 0.
C15_RoundTrip ==
    TripDone => Fresh(Alice)

\* A completed round trip that borrowed the whole stake.
C15_Witness ==
    /\ TripDone
    /\ trip.s = Uint64Max
    /\ trip.b = trip.s
    /\ last.amount = trip.s
    /\ pre.plain[Alice] = trip.s
    /\ Fresh(Alice)

\* The third call of a round trip: the borrow had minted b, the repay
\* burned it.
C15_WitnessRepaid ==
    /\ TripStage = 3
    /\ trip.b > 0
    /\ pre.debt[Alice] = trip.b
    /\ pre.bal[Alice] = trip.b
    /\ last.moved = trip.b
    /\ encDebt[Alice] = 0

\* C21: in every reachable state every account's plainStake is between 0
\* and 2^64 - 1 inclusive.
C21_PlainStakeInRange ==
    \A a \in Accounts : 0 <= plainStake[a] /\ plainStake[a] <= Uint64Max

\* A stake that brought the plain stake to 2^64 - 1 exactly.
C21_Witness ==
    /\ last.op = "stake"
    /\ Succeeded
    /\ pre.plain[Caller] > 0
    /\ plainStake[Caller] = Uint64Max

\* A stake that would have passed 2^64 - 1, refused.
C21_WitnessRefused ==
    /\ last.op = "stake"
    /\ last.err = "StakeTooLarge"
    /\ last.amount <= Uint64Max
    /\ pre.plain[Caller] + last.amount > Uint64Max

\* C22: once the owner has called updateMinter(Vault) the minter is the
\* Vault; while it is, a mint or burnFrom sent by the deployer or any
\* other account is refused and the Vault's own are not, and the minter
\* stays the Vault until the owner rotates it.
C22_WiredMinter ==
    /\ (last.op = "updateMinter" /\ Succeeded /\ last.to = Vault)
       => minter = Vault
    /\ (pre.minter = Vault /\ last.op \in {"mint", "burnFrom"})
       => (last.err = "UnauthorizedMinter" /\ NoEffect)
    /\ (pre.minter = Vault /\ last.op \in {"borrow", "repay"})
       => last.err # "UnauthorizedMinter"
    /\ (pre.minter = Vault /\ minter # Vault)
       => (last.op = "updateMinter" /\ Succeeded /\ last.caller = pre.owner)

\* The wiring: the owner's updateMinter(Vault) on the deployed pair.
C22_WitnessWired ==
    /\ last.op = "updateMinter"
    /\ Succeeded
    /\ last.caller = Deployer
    /\ pre.minter = Deployer
    /\ minter = Vault

\* After the wiring the deployer's mint is refused.
C22_Witness ==
    /\ last.op = "mint"
    /\ last.caller = Deployer
    /\ pre.minter = Vault
    /\ last.err = "UnauthorizedMinter"
    /\ balance = pre.bal

\* C23: a borrow of a with debt d where d + a >= 2^64 leaves the debt at
\* d and mints 0, also when d itself is within the encrypted stake.
C23_OverflowingBorrow ==
    (last.op = "borrow" /\ pre.debt[Caller] + last.amount >= Two64)
    => /\ encDebt[Caller] = pre.debt[Caller]
       /\ last.moved = 0
       /\ balance[Caller] = pre.bal[Caller]

\* A completed borrow whose sum overflows while the debt is covered.
C23_Witness ==
    /\ last.op = "borrow"
    /\ Succeeded
    /\ pre.debt[Caller] > 0
    /\ pre.debt[Caller] <= pre.enc[Caller]
    /\ pre.debt[Caller] + last.amount >= Two64
    /\ encDebt[Caller] = pre.debt[Caller]
    /\ last.moved = 0

\* The status of a withdraw computed from the amount, the plain stake and
\* the result of the transfer alone.
WithdrawStatus ==
    IF last.amount = 0 THEN "ZeroWithdrawAmount"
    ELSE IF last.amount > pre.plain[Caller] THEN "InsufficientStake"
    ELSE IF ~last.sent THEN "EthTransferFailed"
    ELSE "none"

\* C24: withdraw is gated by the plaintext stake only: with
\* 0 < amount <= plainStake and a successful transfer it succeeds whatever
\* the account's encrypted debt.
C24_WithdrawIgnoresDebt ==
    last.op = "withdraw" => last.err = WithdrawStatus

\* A withdraw of the whole stake by an account in debt.
C24_Witness ==
    /\ last.op = "withdraw"
    /\ Succeeded
    /\ pre.debt[Caller] > 0
    /\ last.amount = pre.plain[Caller]
    /\ encDebt[Caller] = pre.debt[Caller]
    /\ encStake[Caller] < encDebt[Caller]

\* C29: in a successful borrow the amount minted is new debt - old debt,
\* in a successful repay the amount burned is old debt - new debt, and
\* each is the whole requested amount or 0.
C29_Lockstep ==
    /\ (last.op = "borrow" /\ Succeeded)
       => /\ last.moved = encDebt[Caller] - pre.debt[Caller]
          /\ last.moved \in {0, last.amount}
    /\ (last.op = "repay" /\ Succeeded)
       => /\ last.moved = pre.debt[Caller] - encDebt[Caller]
          /\ last.moved \in {0, last.amount}

\* A repay of part of the debt: the burn is the whole requested amount.
C29_Witness ==
    /\ last.op = "repay"
    /\ Succeeded
    /\ last.amount > 0
    /\ last.amount < pre.debt[Caller]
    /\ last.moved = last.amount
    /\ encDebt[Caller] = pre.debt[Caller] - last.amount

\* A borrow for which the collateral covers only part of the request:
\* nothing is lent.
C29_WitnessNoPartial ==
    /\ last.op = "borrow"
    /\ Succeeded
    /\ pre.debt[Caller] < pre.enc[Caller]
    /\ pre.debt[Caller] + last.amount > pre.enc[Caller]
    /\ last.moved = 0

\* A borrow or repay made while the Vault is not the Ledger's minter.
C30_Case ==
    /\ last.op \in {"borrow", "repay"}
    /\ pre.minter # Vault

\* The call passed the Vault's own checks and reached the Ledger.
C30_ReachedLedger ==
    /\ last.proofOk
    /\ last.op = "borrow" => pre.plain[Caller] > 0

\* stake and withdraw do not depend on the minter.
C30_StakeWithdrawUnaffected ==
    /\ last.op = "stake" => last.err = stakeRevert(pre.plain[Caller], last.amount)
    /\ last.op = "withdraw" => last.err = WithdrawStatus

\* C30 as stated: while the Vault is not the minter a borrow or repay
\* fails with UnauthorizedMinter and is rolled back; stake and withdraw
\* are unaffected.
C30_Original ==
    /\ C30_Case => (last.err = "UnauthorizedMinter" /\ NoEffect)
    /\ C30_StakeWithdrawUnaffected

\* C30 as amended: while the Vault is not the minter every borrow or repay
\* fails and is rolled back, with UnauthorizedMinter when the call passed
\* the stake gate and the proof validation; stake and withdraw are
\* unaffected.
C30_UnwiredBorrowRepayFail ==
    /\ C30_Case => (last.err # "none" /\ NoEffect)
    /\ (C30_Case /\ C30_ReachedLedger) => last.err = "UnauthorizedMinter"
    /\ C30_StakeWithdrawUnaffected

\* A repay refused by the Ledger after the owner rotated the minter away
\* from the Vault: the debt is as before.
C30_Witness ==
    /\ C30_Case
    /\ last.op = "repay"
    /\ last.err = "UnauthorizedMinter"
    /\ pre.debt[Caller] > 0
    /\ last.amount > 0
    /\ last.amount <= pre.debt[Caller]
    /\ encDebt = pre.debt

\* The last transaction completed and changed the contracts' state.
Changed == last.err = "none" /\ Snapshot # pre

\* Account a has a Vault call that completes and changes the state, with a
\* valid proof and a caller that accepts the transfer.
CanAct(a) ==
    ENABLED (/\ \/ \E v \in PayAmounts : Stake(a, v)
                \/ \E amt \in WithdrawAmounts : Withdraw(a, amt, TRUE)
                \/ \E amt \in EncAmounts : Borrow(a, amt, TRUE)
                \/ \E amt \in EncAmounts : Repay(a, amt, TRUE)
             /\ Changed')

\* C25: there is no terminal state: in every reachable state every account
\* has a stake, withdraw, borrow or repay that can succeed and change the
\* state.
C25_NoTerminalState ==
    \A a \in Accounts : CanAct(a)

\* An account at the 64-bit bound, in full debt, the Vault not being the
\* minter: stake, borrow and repay are closed, withdraw is open.
C25_Witness ==
    /\ plainStake[Alice] = Uint64Max
    /\ encDebt[Alice] = Uint64Max
    /\ minter # Vault
    /\ CanAct(Alice)

\* C27: while the Vault is the minter for the whole run and balances
\* change only through its mint and burnFrom, every account's Ledger
\* balance equals its encrypted debt.
C27_BalanceIsDebt ==
    \A a \in Accounts : balance[a] = encDebt[a]

\* A partial repay: balance and debt both came down to the same rest.
C27_Witness ==
    /\ last.op = "repay"
    /\ Succeeded
    /\ last.moved > 0
    /\ encDebt[Caller] > 0
    /\ balance[Caller] = encDebt[Caller]
    /\ pre.bal[Caller] = pre.debt[Caller]

\* C28: with the Vault the only caller of mint and burnFrom, no mint made
\* by borrow takes a balance above 2^64 - 1 and no burnFrom made by repay
\* takes a balance below 0.
C28_LedgerInRange ==
    /\ (last.op = "borrow" /\ Succeeded)
       => pre.bal[Caller] + last.moved <= Uint64Max
    /\ (last.op = "repay" /\ Succeeded)
       => pre.bal[Caller] - last.moved >= 0

\* A borrow whose mint brought the balance to 2^64 - 1 exactly.
C28_Witness ==
    /\ last.op = "borrow"
    /\ Succeeded
    /\ last.moved > 0
    /\ pre.bal[Caller] > 0
    /\ pre.bal[Caller] + last.moved = Uint64Max

\* A repay that burned the whole balance, and one refused more than that.
C28_WitnessBurn ==
    /\ last.op = "repay"
    /\ Succeeded
    /\ last.amount > pre.bal[Caller]
    /\ pre.bal[Caller] > 0
    /\ last.moved = 0

RECURSIVE SumOver(_, _)
SumOver(f, S) ==
    IF S = {} THEN 0
    ELSE LET a == CHOOSE x \in S : TRUE
         IN f[a] + SumOver(f, S \ {a})

\* C26: when the recipient of withdraw's transfer calls the Vault again
\* during the transfer, in every state reached, the states the re-entrant
\* call runs on included, the ETH the Vault holds is the sum of plainStake
\* over all accounts and no account has received more than it staked.
C26_ReentrancySafe ==
    /\ vaultEth = SumOver(plainStake, Accounts)
    /\ \A a \in Accounts : netPaid[a] >= 0

\* A withdraw entered by the recipient of its own earlier withdraw, which
\* has not returned yet.
C26_Witness ==
    /\ Depth = 2
    /\ frames[1].caller = frames[2].caller
    /\ last.op = "withdraw"
    /\ Succeeded
    /\ last.moved > 0
    /\ vaultEth = SumOver(plainStake, Accounts)

\* A stake made by the recipient inside the transfer, then undone with
\* the withdraw when the transfer reported failure.
C26_WitnessRolledBack ==
    /\ last.op = "withdrawReturn"
    /\ last.err = "EthTransferFailed"
    /\ pre.plain[Caller] > plainStake[Caller] - last.amount
    /\ plainStake[Caller] >= last.amount
    /\ vaultEth = SumOver(plainStake, Accounts)

VaultOps == {"stake", "withdraw", "borrow", "repay"}

\* C31: borrow and repay leave the caller's plainStake, the value of its
\* encrypted stake and the ETH the Vault holds unchanged; stake and withdraw
\* leave the caller's encrypted debt and every Ledger balance unchanged;
\* none of the four Vault operations changes the Ledger's owner or minter.
C31_Frame ==
    /\ last.op \in {"borrow", "repay"} =>
          /\ plainStake[Caller] = pre.plain[Caller]
          /\ encStake[Caller] = pre.enc[Caller]
          /\ vaultEth = pre.eth
    /\ last.op \in {"stake", "withdraw"} =>
          /\ encDebt[Caller] = pre.debt[Caller]
          /\ balance = pre.bal
    /\ last.op \in VaultOps =>
          /\ owner = pre.owner
          /\ minter = pre.minter

\* A withdraw that paid out while the caller owed a debt and held tokens.
C31_Witness ==
    /\ last.op = "withdraw"
    /\ Succeeded
    /\ last.moved > 0
    /\ pre.debt[Caller] > 0
    /\ pre.bal[Caller] > 0
    /\ plainStake[Caller] < pre.plain[Caller]

\* A borrow that lent while the caller held a stake in the Vault.
C31_WitnessBorrow ==
    /\ last.op = "borrow"
    /\ Succeeded
    /\ last.moved > 0
    /\ encDebt[Caller] > pre.debt[Caller]
    /\ pre.plain[Caller] > 0
    /\ pre.eth > 0

\* C32: withdraw never fails with StakeTooLarge: the stake held is at most
\* 2^64 - 1 and InsufficientStake is tested first, so an amount above
\* 2^64 - 1 is always refused as InsufficientStake.
C32_WithdrawNeverTooLarge ==
    last.op = "withdraw" => last.err # "StakeTooLarge"

\* A withdraw of more than 2^64 - 1 from an account holding the largest
\* stake there is, refused as InsufficientStake.
C32_Witness ==
    /\ last.op = "withdraw"
    /\ last.amount > Uint64Max
    /\ pre.plain[Caller] = Uint64Max
    /\ last.err = "InsufficientStake"

\* C33: with the Vault the Ledger's minter, a repay with a valid proof
\* completes for every account in every reachable state, whatever its
\* stake and debt; for an account with debt 0 it leaves the debt 0 and
\* burns 0.
C33_RepayUngated ==
    (last.op = "repay" /\ last.proofOk /\ pre.minter = Vault) =>
        /\ Succeeded
        /\ pre.debt[Caller] = 0 =>
              /\ encDebt[Caller] = 0
              /\ last.moved = 0
              /\ balance[Caller] = pre.bal[Caller]

\* A repay of a positive amount completed by an account that never staked
\* and owes nothing.
C33_Witness ==
    /\ last.op = "repay"
    /\ Succeeded
    /\ last.amount > 0
    /\ pre.plain[Caller] = 0
    /\ pre.stakeAcl[Caller] = {}
    /\ pre.debt[Caller] = 0
    /\ last.moved = 0

\* A repay completed by an account that staked and withdrew all of it.
C33_WitnessWithdrawnAll ==
    /\ last.op = "repay"
    /\ Succeeded
    /\ last.amount > 0
    /\ pre.plain[Caller] = 0
    /\ pre.stakeAcl[Caller] # {}

\* C34: a completed borrow emits Borrowed(caller, mintAmount) and a
\* completed repay Repaid(caller, burnAmount), whether or not the encrypted
\* condition held; a completed stake and withdraw emit StakeDeposited and
\* StakeWithdrawn with the public amount; a failed call emits nothing.
C34_Events ==
    /\ (last.op = "borrow" /\ Succeeded) =>
          last.event = [kind |-> "Borrowed", account |-> Caller,
                        amount |-> last.moved]
    /\ (last.op = "repay" /\ Succeeded) =>
          last.event = [kind |-> "Repaid", account |-> Caller,
                        amount |-> last.moved]
    /\ (last.op = "stake" /\ Succeeded) =>
          last.event = [kind |-> "StakeDeposited", account |-> Caller,
                        amount |-> last.amount]
    /\ (last.op = "withdraw" /\ Succeeded) =>
          last.event = [kind |-> "StakeWithdrawn", account |-> Caller,
                        amount |-> last.amount]
    /\ (last.op \in VaultOps /\ ~Succeeded) => last.event = NoEvent

\* A repay the debt did not cover: nothing burned, Repaid emitted with 0.
C34_Witness ==
    /\ last.op = "repay"
    /\ Succeeded
    /\ last.amount > 0
    /\ last.moved = 0
    /\ encDebt[Caller] = pre.debt[Caller]
    /\ last.event.kind = "Repaid"

\* A borrow the collateral did not cover: nothing minted, Borrowed emitted.
C34_WitnessBorrow ==
    /\ last.op = "borrow"
    /\ Succeeded
    /\ last.amount > 0
    /\ last.moved = 0
    /\ last.event.kind = "Borrowed"

\* C35: construction with a zero initial minter fails with InvalidMinter and
\* leaves no Ledger; once the Ledger exists its owner is the account that
\* deployed it and its minter is never the zero address; mint, burnFrom and
\* a failed updateMinter leave owner and minter as they were.
C35_LedgerConfig ==
    /\ (last.op = "constructor" /\ last.to = Zero) =>
          /\ last.err = "InvalidMinter"
          /\ ~Live
          /\ StateAsBefore
    /\ (last.op = "constructor" /\ last.to # Zero) =>
          /\ Succeeded
          /\ deployer = Caller
          /\ minter = last.to
    /\ Live => (owner = deployer /\ minter # Zero)
    /\ (\/ last.op \in {"mint", "burnFrom"}
        \/ (last.op = "updateMinter" /\ ~Succeeded)) =>
          /\ owner = pre.owner
          /\ minter = pre.minter

\* A construction with the zero address as initial minter, refused.
C35_Witness ==
    /\ last.op = "constructor"
    /\ last.to = Zero
    /\ last.err = "InvalidMinter"
    /\ ~Live

\* A Ledger deployed by Alice with another account as minter, on which
\* that minter has minted.
C35_WitnessMinted ==
    /\ Live
    /\ deployer = Alice
    /\ last.op = "mint"
    /\ Succeeded
    /\ Caller = Deployer
    /\ minter = Deployer
    /\ owner = Alice

\* An updateMinter(0) by the owner, refused.
C35_WitnessZeroRotation ==
    /\ Live
    /\ last.op = "updateMinter"
    /\ Caller = owner
    /\ last.to = Zero
    /\ last.err = "InvalidMinter"
    /\ minter = pre.minter

\* C36: busyAction is non-null exactly while some action started from the
\* page is in flight, and at most one action is in flight at a time.
C36_Exclusive ==
    /\ (busyAction # null) <=> (InFlight > 0)
    /\ InFlight <= 1

====
